---- MODULE Spec2Model ----
(***************************************************************************)
(* Model of the WebContainer store (src/store/webContainerStore.tsx) and   *)
(* of the terminal panel with its executeAutoCommands helper.              *)
(*                                                                         *)
(* Every async function is cut at its awaits: one action per resumption,   *)
(* which runs the synchronous code up to the next await (or the return).   *)
(* null / undefined / '' are written 0.                                    *)
(***************************************************************************)
EXTENDS Integers, Sequences, FiniteSets, TLC

\* ---------------------------------------------------------------- bounds
MaxCalls == 2      \* initWebContainer calls made on the store
MaxRuns == 2       \* runs of the terminal panel's effect
MaxSize == 2       \* sizes the panel's div can take
MaxLen == 2        \* chunks a jsh emits, and onData events of a Terminal
MaxData == 2       \* distinct values of a chunk or a keystroke

\* An instance is named after the call whose WebContainer.boot() returned it.
Calls == 1..MaxCalls
Instances == 1..MaxCalls
Runs == 1..MaxRuns
Sizes == 1..MaxSize
Data == 1..MaxData

VARIABLES
  webContainerInstance,  \* store field: 0 or an instance
  isInitialized,         \* store field
  url,                   \* store field: 0 ('') or the instance whose server url it is
  call,                  \* per initWebContainer call: its position and locals
  curDirectory,          \* imported module value: truthy or not
  boots,                 \* number of WebContainer.boot() invocations
  listeners,             \* per instance: number of 'server-ready' listeners
  written,               \* per instance: sequence of completed writeDirByLocal
  completed,             \* number of initWebContainer calls that returned
  eac,                   \* per effect run: its executeAutoCommands call
  proc,                  \* per effect run and command: the spawned process
  log,                   \* per effect run: what executeAutoCommands wrote to the terminal
  run,                   \* per effect run: position and closure variables of init()
  nruns,                 \* number of effect runs started
  mounted,               \* the panel is mounted (terminalRef.current is set)
  shell,                 \* shell.current: 0 or the run whose jsh process it holds
  jsh,                   \* per effect run: the jsh process it spawned
  resizeListeners,       \* runs whose 'resize' listener is registered on window
  removed,               \* per instance: fs.rm('/') was called on it
  served,                \* runs whose dev server has emitted 'server-ready'
  container,             \* the size (cols and rows) fit() computes for the panel's div
  tsize,                 \* per effect run: cols and rows of its Terminal, 0 without one
  pty,                   \* per effect run: the size its jsh process was last given
  emitted,               \* per effect run: the chunks its jsh has emitted on output
  outq,                  \* per effect run: the emitted chunks the pipe has not taken
  screen,                \* per effect run: the chunks written to its Terminal
  typed,                 \* per effect run: the onData events of its Terminal
  stdin,                 \* per effect run: the data given to input.write
  handlers,              \* per effect run: the onData handlers on its Terminal
  wiredAt                \* per effect run: the events before the wiring, -1 unwired

storeVars == <<webContainerInstance, isInitialized, url, call, curDirectory,
               boots, listeners, written, completed>>

autoVars == <<eac, proc, log>>

panelVars == <<run, nruns, mounted, shell, jsh, resizeListeners, removed,
               served>>

sizeVars == <<container, tsize, pty>>

streamVars == <<emitted, outq, screen, typed, stdin, handlers, wiredAt>>

vars == <<storeVars, autoVars, panelVars, sizeVars, streamVars>>

\* ------------------------------------------------------------------ store

IdleCall == [pc |-> "idle", inst |-> 0, init |-> FALSE, info |-> FALSE,
             target |-> 0, booted |-> FALSE, wrote |-> <<>>, overlap |-> FALSE]

\* call c has been made and has neither returned nor thrown
InFlight(c) == call[c].pc \notin {"idle", "done", "failed"}

StoreInit ==
  /\ webContainerInstance = 0
  /\ isInitialized = FALSE
  /\ url = 0
  /\ call = [c \in Calls |-> IdleCall]
  /\ curDirectory \in BOOLEAN
  /\ boots = 0
  /\ listeners = [n \in Instances |-> 0]
  /\ written = [n \in Instances |-> <<>>]
  /\ completed = 0

\* mutant: the guard of line 30 looks at isInitialized only
ShouldBootUninitialised(init, inst) == ~init

\* the guard of line 30, on the values captured at line 26
ShouldBoot(init, inst) == ~init /\ inst = 0

\* mutant: the listener is attached by the booting call only
FinishBootOnly(c, cur) ==
  /\ listeners' = IF cur.target # 0 /\ cur.booted
                    THEN [listeners EXCEPT ![cur.target] = @ + 1]
                    ELSE listeners
  /\ webContainerInstance' = cur.target
  /\ isInitialized' = TRUE
  /\ completed' = completed + 1
  /\ call' = [call EXCEPT ![c] = [cur EXCEPT !.pc = "done"]]

\* lines 45-64 and 77-96: attach the listener (optional chaining skips a
\* null instance), then set the store, then return; cur holds the call's locals
Finish(c, cur) ==
  /\ listeners' = IF cur.target # 0 THEN [listeners EXCEPT ![cur.target] = @ + 1]
                                    ELSE listeners
  /\ webContainerInstance' = cur.target
  /\ isInitialized' = TRUE
  /\ completed' = completed + 1
  /\ call' = [call EXCEPT ![c] = [cur EXCEPT !.pc = "done"]]

\* mutant: the store is set as soon as the instance exists, before the writes
SeedStoreFirst(c, cur) ==
  IF cur.info
    THEN /\ call' = [call EXCEPT ![c] = [cur EXCEPT !.pc = "writeProject"]]
         /\ webContainerInstance' = cur.target
         /\ isInitialized' = TRUE
         /\ UNCHANGED <<listeners, completed>>
    ELSE IF curDirectory
      THEN /\ call' = [call EXCEPT ![c] = [cur EXCEPT !.pc = "writeCur"]]
           /\ webContainerInstance' = cur.target
           /\ isInitialized' = TRUE
           /\ UNCHANGED <<listeners, completed>>
      ELSE Finish(c, cur)

\* the code after boot (lines 34-64) or at the head of the else branch
\* (lines 66-96), up to its first await
Seed(c, cur) ==
  IF cur.info
    THEN /\ call' = [call EXCEPT ![c] = [cur EXCEPT !.pc = "writeProject"]]
         /\ UNCHANGED <<webContainerInstance, isInitialized, listeners, completed>>
    ELSE IF curDirectory
      THEN /\ call' = [call EXCEPT ![c] = [cur EXCEPT !.pc = "writeCur"]]
           /\ UNCHANGED <<webContainerInstance, isInitialized, listeners, completed>>
      ELSE Finish(c, cur)

\* lines 25-27: read the store, start localforage.getItem
initWebContainer(c) ==
  /\ call[c].pc = "idle"
  /\ call' = [call EXCEPT ![c].pc = "getItem",
                          ![c].inst = webContainerInstance,
                          ![c].init = isInitialized,
                          ![c].overlap = \E o \in Calls \ {c} : InFlight(o)]
  /\ UNCHANGED <<webContainerInstance, isInitialized, url, curDirectory, boots,
                 listeners, written, completed>>
  /\ UNCHANGED <<autoVars, panelVars, sizeVars, streamVars>>

\* lines 27-31 (getItem resolved, boot branch): invoke WebContainer.boot()
GetItemBoot(c) ==
  /\ call[c].pc = "getItem"
  /\ ShouldBoot(call[c].init, call[c].inst)
  /\ \E info \in BOOLEAN :
       call' = [call EXCEPT ![c].pc = "boot", ![c].info = info]
  /\ boots' = boots + 1
  /\ UNCHANGED <<webContainerInstance, isInitialized, url, curDirectory,
                 listeners, written, completed>>
  /\ UNCHANGED <<autoVars, panelVars, sizeVars, streamVars>>

\* lines 27-30, 65-96 (getItem resolved, else branch)
GetItemReuse(c) ==
  /\ call[c].pc = "getItem"
  /\ ~ShouldBoot(call[c].init, call[c].inst)
  /\ \E info \in BOOLEAN :
       Seed(c, [call[c] EXCEPT !.info = info, !.target = call[c].inst])
  /\ UNCHANGED <<url, curDirectory, boots, written>>
  /\ UNCHANGED <<autoVars, panelVars, sizeVars, streamVars>>

\* line 31 resolved with a new instance, then lines 32-64 up to the next await
BootResolve(c) ==
  /\ call[c].pc = "boot"
  /\ Seed(c, [call[c] EXCEPT !.target = c, !.booted = TRUE])
  /\ UNCHANGED <<url, curDirectory, boots, written>>
  /\ UNCHANGED <<autoVars, panelVars, sizeVars, streamVars>>

\* line 31 rejected: the call throws
BootReject(c) ==
  /\ call[c].pc = "boot"
  /\ call' = [call EXCEPT ![c].pc = "failed"]
  /\ UNCHANGED <<webContainerInstance, isInitialized, url, curDirectory, boots,
                 listeners, written, completed>>
  /\ UNCHANGED <<autoVars, panelVars, sizeVars, streamVars>>

\* line 37 / 69 resolved: the project files are in the instance
WriteProjectResolve(c) ==
  /\ call[c].pc = "writeProject"
  /\ call[c].target # 0
  /\ written' = [written EXCEPT ![call[c].target] = Append(@, "project")]
  /\ LET cur == [call[c] EXCEPT !.wrote = Append(@, "project")] IN
       IF curDirectory
         THEN /\ call' = [call EXCEPT ![c] = [cur EXCEPT !.pc = "writeCur"]]
              /\ UNCHANGED <<webContainerInstance, isInitialized, listeners, completed>>
         ELSE Finish(c, cur)
  /\ UNCHANGED <<url, curDirectory, boots>>
  /\ UNCHANGED <<autoVars, panelVars, sizeVars, streamVars>>

\* line 42 / 74 resolved: curDirectory is in the instance
WriteCurResolve(c) ==
  /\ call[c].pc = "writeCur"
  /\ call[c].target # 0
  /\ written' = [written EXCEPT ![call[c].target] = Append(@, "cur")]
  /\ Finish(c, [call[c] EXCEPT !.wrote = Append(@, "cur")])
  /\ UNCHANGED <<url, curDirectory, boots>>
  /\ UNCHANGED <<autoVars, panelVars, sizeVars, streamVars>>

\* line 69 / 74 on a null instance (isInitialized set, no instance): the
\* write has nothing to write into; it may reject (the call throws) or
\* resolve without effect
WriteNull(c) ==
  /\ call[c].pc \in {"writeProject", "writeCur"}
  /\ call[c].target = 0
  /\ \/ call' = [call EXCEPT ![c].pc = "failed"]
        /\ UNCHANGED <<webContainerInstance, isInitialized, listeners, completed>>
     \/ IF call[c].pc = "writeProject" /\ curDirectory
          THEN /\ call' = [call EXCEPT ![c].pc = "writeCur"]
               /\ UNCHANGED <<webContainerInstance, isInitialized, listeners, completed>>
          ELSE Finish(c, call[c])
  /\ UNCHANGED <<url, curDirectory, boots, written>>
  /\ UNCHANGED <<autoVars, panelVars, sizeVars, streamVars>>

\* lines 99-101
setUrl(u) ==
  /\ url' = u
  /\ UNCHANGED <<webContainerInstance, isInitialized, call, curDirectory, boots,
                 listeners, written, completed>>
  /\ UNCHANGED <<autoVars, panelVars, sizeVars, streamVars>>

\* lines 102-104
setInitialized(b) ==
  /\ isInitialized' = b
  /\ UNCHANGED <<webContainerInstance, url, call, curDirectory, boots,
                 listeners, written, completed>>
  /\ UNCHANGED <<autoVars, panelVars, sizeVars, streamVars>>

\* the steps of an initWebContainer call that takes the branch of line 30
BootingCall(c) ==
  \/ initWebContainer(c)
  \/ GetItemBoot(c)
  \/ BootResolve(c)
  \/ BootReject(c)
  \/ WriteProjectResolve(c)
  \/ WriteCurResolve(c)

\* the steps of any initWebContainer call
StoreCall(c) ==
  \/ BootingCall(c)
  \/ GetItemReuse(c)
  \/ WriteNull(c)

\* the store's whole interface, under any caller
StoreNext ==
  \/ \E c \in Calls : StoreCall(c)
  \/ \E u \in {0} \cup Instances : setUrl(u)
  \/ \E b \in BOOLEAN : setInitialized(b)


\* ---------------------------------------------------- executeAutoCommands

maxRetries == 50
retryInterval == 200
ExitCodes == {0, 1, 2}

\* mutant: 'pnpm install' is not awaited either
CommandsInstallNotAwaited ==
  << [name |-> "install", waitForExit |-> FALSE],
     [name |-> "dev", waitForExit |-> FALSE] >>

\* mutant: 'pnpm dev' is awaited like 'pnpm install'
CommandsDevAwaited ==
  << [name |-> "install", waitForExit |-> TRUE],
     [name |-> "dev", waitForExit |-> TRUE] >>

\* part_000 lines 90-103
commands == << [name |-> "install", waitForExit |-> TRUE],
               [name |-> "dev", waitForExit |-> FALSE] >>

Cmds == 1..Len(commands)
Install == 1     \* index of 'pnpm install' in commands
Dev == 2         \* index of 'pnpm dev' in commands

Msg(m) == [m |-> m, code |-> 0]
MsgCode(m, code) == [m |-> m, code |-> code]

IdleEac == [pc |-> "idle", i |-> 0, k |-> 0, reactDirExists |-> FALSE,
            attempts |-> 0, fails |-> 0, waits |-> 0, timer |-> 0, spawns |-> 0]
NoProc == [st |-> "none", code |-> 0]

AutoVarsInit ==
  /\ eac = [r \in Runs |-> IdleEac]
  /\ proc = [r \in Runs |-> [k \in Cmds |-> NoProc]]
  /\ log = [r \in Runs |-> <<>>]

\* lines 52-61: the first readdir('/react') is started
executeAutoCommands(r) ==
  /\ eac' = [eac EXCEPT ![r].pc = "readdir", ![r].i = 0, ![r].attempts = 1]
  /\ log' = [log EXCEPT ![r] = Append(@, Msg("waiting"))]

\* lines 116-132 for command k: its two header lines, then spawn is called
SpawnLog(k) == << Msg("description"), MsgCode("command", k) >>

\* lines 61-64, 73, 111-132: readdir resolved, the loop is left, the first
\* command is announced and spawn is called
ReaddirOk(r) ==
  /\ eac[r].pc = "readdir"
  /\ eac' = [eac EXCEPT ![r].pc = "spawn", ![r].k = 1, ![r].reactDirExists = TRUE,
                        ![r].spawns = @ + 1]
  /\ log' = [log EXCEPT ![r] = @ \o << Msg("ready"), Msg("start") >> \o SpawnLog(1)]
  /\ UNCHANGED proc
  /\ UNCHANGED <<storeVars, panelVars, sizeVars, streamVars>>

\* lines 65-68: readdir rejected, the retry timer is started
ReaddirFail(r) ==
  /\ eac[r].pc = "readdir"
  /\ eac' = [eac EXCEPT ![r].pc = "wait", ![r].fails = @ + 1, ![r].waits = @ + 1,
                        ![r].timer = retryInterval]
  /\ UNCHANGED <<proc, log>>
  /\ UNCHANGED <<storeVars, panelVars, sizeVars, streamVars>>

\* mutant: the check of line 73 is missing, the commands run regardless
WaitDoneNoGiveUp(r) ==
  /\ eac[r].pc = "wait"
  /\ IF eac[r].i + 1 < maxRetries
       THEN /\ eac' = [eac EXCEPT ![r].pc = "readdir", ![r].i = @ + 1,
                                  ![r].attempts = @ + 1, ![r].timer = 0]
            /\ UNCHANGED log
       ELSE /\ eac' = [eac EXCEPT ![r].pc = "spawn", ![r].k = 1, ![r].i = @ + 1,
                                  ![r].timer = 0, ![r].spawns = @ + 1]
            /\ log' = [log EXCEPT ![r] = @ \o << Msg("start") >> \o SpawnLog(1)]
  /\ UNCHANGED proc
  /\ UNCHANGED <<storeVars, panelVars, sizeVars, streamVars>>

\* mutant: the loop counter is not advanced
WaitDoneNoCount(r) ==
  /\ eac[r].pc = "wait"
  /\ eac' = [eac EXCEPT ![r].pc = "readdir", ![r].attempts = @ + 1, ![r].timer = 0]
  /\ UNCHANGED <<proc, log>>
  /\ UNCHANGED <<storeVars, panelVars, sizeVars, streamVars>>

\* line 68 resolved, then line 58 (i++, i < maxRetries): either the next
\* readdir (line 61), or lines 73-78
WaitDone(r) ==
  /\ eac[r].pc = "wait"
  /\ IF eac[r].i + 1 < maxRetries
       THEN /\ eac' = [eac EXCEPT ![r].pc = "readdir", ![r].i = @ + 1,
                                  ![r].attempts = @ + 1, ![r].timer = 0]
            /\ UNCHANGED log
       ELSE /\ eac' = [eac EXCEPT ![r].pc = "done", ![r].i = @ + 1, ![r].timer = 0]
            /\ log' = [log EXCEPT ![r] = Append(@, Msg("notfound"))]
  /\ UNCHANGED proc
  /\ UNCHANGED <<storeVars, panelVars, sizeVars, streamVars>>

\* what follows command k once nothing more is awaited for it: the next
\* command's header and spawn (lines 114-132), or line 185 and the return
Advance(r, k, written0) ==
  IF k < Len(commands)
    THEN /\ eac' = [eac EXCEPT ![r].pc = "spawn", ![r].k = k + 1, ![r].spawns = @ + 1]
         /\ log' = [log EXCEPT ![r] = @ \o written0 \o SpawnLog(k + 1)]
    ELSE /\ eac' = [eac EXCEPT ![r].pc = "done"]
         /\ log' = [log EXCEPT ![r] = @ \o written0 \o << Msg("complete") >>]

\* line 132 resolved: the process runs; lines 146-181
SpawnResolve(r) ==
  /\ eac[r].pc = "spawn"
  /\ LET k == eac[r].k IN
       /\ proc' = [proc EXCEPT ![r][k].st = "running"]
       /\ IF commands[k].waitForExit
            THEN /\ eac' = [eac EXCEPT ![r].pc = "exit"]
                 /\ UNCHANGED log
            ELSE Advance(r, k, << MsgCode("started", k) >>)
  /\ UNCHANGED <<storeVars, panelVars, sizeVars, streamVars>>

\* line 132 rejected: lines 186-191
SpawnReject(r) ==
  /\ eac[r].pc = "spawn"
  /\ eac' = [eac EXCEPT ![r].pc = "done"]
  /\ log' = [log EXCEPT ![r] = Append(@, Msg("autofailed"))]
  /\ UNCHANGED proc
  /\ UNCHANGED <<storeVars, panelVars, sizeVars, streamVars>>

\* mutant: the return of line 173 is missing
ExitResolveNoReturn(r) ==
  /\ eac[r].pc = "exit"
  /\ LET k == eac[r].k IN
       /\ proc[r][k].st = "exited"
       /\ IF proc[r][k].code # 0
            THEN Advance(r, k, << MsgCode("cmdfailed", proc[r][k].code) >>)
            ELSE Advance(r, k, << MsgCode("ok", k) >>)
  /\ UNCHANGED proc
  /\ UNCHANGED <<storeVars, panelVars, sizeVars, streamVars>>

\* line 166 resolved with the exit code of the awaited process; lines 169-185
ExitResolve(r) ==
  /\ eac[r].pc = "exit"
  /\ LET k == eac[r].k IN
       /\ proc[r][k].st = "exited"
       /\ IF proc[r][k].code # 0
            THEN /\ eac' = [eac EXCEPT ![r].pc = "done"]
                 /\ log' = [log EXCEPT ![r] = Append(@, MsgCode("cmdfailed", proc[r][k].code))]
            ELSE Advance(r, k, << MsgCode("ok", k) >>)
  /\ UNCHANGED proc
  /\ UNCHANGED <<storeVars, panelVars, sizeVars, streamVars>>

\* the container: a running process exits by itself
ProcExit(r, k, code) ==
  /\ proc[r][k].st = "running"
  /\ proc' = [proc EXCEPT ![r][k] = [st |-> "exited", code |-> code]]
  /\ UNCHANGED <<eac, log>>
  /\ UNCHANGED <<storeVars, panelVars, sizeVars, streamVars>>

AutoStep(r) ==
  \/ ReaddirOk(r)
  \/ ReaddirFail(r)
  \/ WaitDone(r)
  \/ SpawnResolve(r)
  \/ SpawnReject(r)
  \/ ExitResolve(r)
  \/ \E k \in Cmds, code \in ExitCodes : ProcExit(r, k, code)

PanelVarsInit ==
  /\ run = [r \in Runs |-> [pc |-> "none", imp |-> 0, inst |-> 0,
                             terminal |-> "undefined", fitAddon |-> FALSE,
                             cleaned |-> FALSE]]
  /\ nruns = 0
  /\ mounted = FALSE
  /\ shell = 0
  /\ jsh = [r \in Runs |-> [st |-> "none"]]
  /\ resizeListeners = {}
  /\ removed = [n \in Instances |-> FALSE]
  /\ served = {}
  /\ container \in Sizes
  /\ tsize = [r \in Runs |-> 0]
  /\ pty = [r \in Runs |-> 0]
  /\ emitted = [r \in Runs |-> <<>>]
  /\ outq = [r \in Runs |-> <<>>]
  /\ screen = [r \in Runs |-> <<>>]
  /\ typed = [r \in Runs |-> <<>>]
  /\ stdin = [r \in Runs |-> <<>>]
  /\ handlers = [r \in Runs |-> 0]
  /\ wiredAt = [r \in Runs |-> -1]

\* ---------------------------------------------------------- TerminalPanel

Imports == 4     \* the dynamic imports awaited by init(), part_000 lines 343-352

Falsy(terminal) == terminal \in {"undefined", "null"}

\* lines 321-343: the effect is invoked on the store's current instance and
\* init() runs up to its first await
EffectStart(r) ==
  [run EXCEPT ![r] = [pc |-> "import", imp |-> 1, inst |-> webContainerInstance,
                      terminal |-> "undefined", fitAddon |-> FALSE,
                      cleaned |-> FALSE]]

\* lines 617-676, the cleanup returned by effect run r, applied to the runs rs
CleanupRun(rs, r) ==
  [rs EXCEPT ![r].terminal = "null", ![r].cleaned = TRUE]

\* line 642: shell.current?.kill()
KillShell ==
  IF shell # 0 /\ jsh[shell].st = "running"
    THEN [jsh EXCEPT ![shell].st = "killed"]
    ELSE jsh

\* line 630: webContainerInstance?.fs.rm('/', { recursive: true })
RmRoot(r) ==
  IF run[r].inst # 0 THEN [removed EXCEPT ![run[r].inst] = TRUE] ELSE removed

\* the component mounts: the first effect run
Mount ==
  /\ ~mounted
  /\ nruns = 0
  /\ mounted' = TRUE
  /\ nruns' = 1
  /\ run' = EffectStart(1)
  /\ UNCHANGED <<shell, jsh, resizeListeners, removed, served, storeVars,
                 autoVars>>
  /\ UNCHANGED sizeVars
  /\ UNCHANGED streamVars

\* line 677: the dependency webContainerInstance changed; React runs the
\* cleanup of the previous effect run, then the effect again
EffectRerun ==
  /\ mounted
  /\ nruns < MaxRuns
  /\ run[nruns].inst # webContainerInstance
  /\ jsh' = KillShell
  /\ removed' = RmRoot(nruns)
  /\ url' = 0
  /\ run' = [CleanupRun(run, nruns) EXCEPT ![nruns + 1] = EffectStart(nruns + 1)[nruns + 1]]
  /\ nruns' = nruns + 1
  /\ UNCHANGED <<mounted, shell, resizeListeners, served, autoVars>>
  /\ UNCHANGED <<webContainerInstance, isInitialized, call, curDirectory, boots,
                 listeners, written, completed>>
  /\ UNCHANGED sizeVars
  /\ UNCHANGED streamVars

\* the component unmounts: the ref is detached and the cleanup runs
Unmount ==
  /\ mounted
  /\ mounted' = FALSE
  /\ jsh' = KillShell
  /\ removed' = RmRoot(nruns)
  /\ url' = 0
  /\ run' = CleanupRun(run, nruns)
  /\ UNCHANGED <<nruns, shell, resizeListeners, served, autoVars>>
  /\ UNCHANGED <<webContainerInstance, isInitialized, call, curDirectory, boots,
                 listeners, written, completed>>
  /\ UNCHANGED sizeVars
  /\ UNCHANGED streamVars

\* lines 343-352: one of the dynamic imports resolved, the next is awaited
ImportNext(r) ==
  /\ run[r].pc = "import"
  /\ run[r].imp < Imports
  /\ run' = [run EXCEPT ![r].imp = @ + 1]
  /\ UNCHANGED <<nruns, mounted, shell, jsh, resizeListeners, removed,
                 served, storeVars, autoVars>>
  /\ UNCHANGED sizeVars
  /\ UNCHANGED streamVars

\* lines 352-474: the last import resolved; the addons are created and, with
\* an instance, a mounted container and no terminal yet, the terminal is
\* created and fitted (line 449) and spawn('jsh') is called with its cols
\* and rows (lines 474-479)
ImportsDone(r) ==
  /\ run[r].pc = "import"
  /\ run[r].imp = Imports
  /\ IF run[r].inst # 0 /\ mounted /\ Falsy(run[r].terminal)
       THEN /\ run' = [run EXCEPT ![r].pc = "spawnJsh", ![r].fitAddon = TRUE,
                                  ![r].terminal = "Terminal"]
            /\ tsize' = [tsize EXCEPT ![r] = container]
            /\ pty' = [pty EXCEPT ![r] = container]
       ELSE /\ run' = [run EXCEPT ![r].pc = "done", ![r].fitAddon = TRUE]
            /\ UNCHANGED <<tsize, pty>>
  /\ UNCHANGED <<nruns, mounted, shell, jsh, resizeListeners, removed,
                 served, storeVars, autoVars, container, streamVars>>

\* lines 533-583: output.pipeTo is attached, the writer of input is taken and
\* terminal?.onData registers the handler, on no Terminal when the closure's
\* terminal is null
Wire(r) ==
  /\ wiredAt' = [wiredAt EXCEPT ![r] = Len(typed[r])]
  /\ handlers' = [handlers EXCEPT ![r] = IF Falsy(run[r].terminal) THEN @ ELSE @ + 1]
  /\ UNCHANGED <<emitted, outq, screen, typed, stdin>>

\* line 474 resolved, lines 481-599: shell.current is set, the resize listener
\* is registered, the streams are wired and executeAutoCommands is called
\* with the closure's terminal. With terminal null (the cleanup ran while
\* spawn was pending) its first writeln throws, and so does the one in its
\* catch block: the call and init() reject.
JshResolve(r) ==
  /\ run[r].pc = "spawnJsh"
  /\ shell' = r
  /\ jsh' = [jsh EXCEPT ![r].st = "running"]
  /\ resizeListeners' = resizeListeners \cup {r}
  /\ IF Falsy(run[r].terminal)
       THEN /\ run' = [run EXCEPT ![r].pc = "done"]
            /\ eac' = [eac EXCEPT ![r].pc = "threw"]
            /\ UNCHANGED log
       ELSE /\ run' = [run EXCEPT ![r].pc = "auto"]
            /\ executeAutoCommands(r)
  /\ Wire(r)
  /\ UNCHANGED <<nruns, mounted, removed, served, proc, storeVars>>
  /\ UNCHANGED sizeVars

\* line 474 rejected: init() rejects
JshReject(r) ==
  /\ run[r].pc = "spawnJsh"
  /\ run' = [run EXCEPT ![r].pc = "done"]
  /\ UNCHANGED <<nruns, mounted, shell, jsh, resizeListeners, removed,
                 served, storeVars, autoVars>>
  /\ UNCHANGED sizeVars
  /\ UNCHANGED streamVars

\* line 599 resolved: executeAutoCommands returned, init() returns
AutoReturn(r) ==
  /\ run[r].pc = "auto"
  /\ eac[r].pc = "done"
  /\ run' = [run EXCEPT ![r].pc = "done"]
  /\ UNCHANGED <<nruns, mounted, shell, jsh, resizeListeners, removed,
                 served, storeVars, autoVars>>
  /\ UNCHANGED sizeVars
  /\ UNCHANGED streamVars

\* the container: a running jsh exits by itself
JshExit(r) ==
  /\ jsh[r].st = "running"
  /\ jsh' = [jsh EXCEPT ![r].st = "exited"]
  /\ UNCHANGED <<run, nruns, mounted, shell, resizeListeners, removed,
                 served, storeVars, autoVars>>
  /\ UNCHANGED sizeVars
  /\ UNCHANGED streamVars

\* the container: the dev server of run r starts to listen; every
\* 'server-ready' listener of its instance runs set({ url }) (store lines
\* 45-62, 77-94)
ServerReady(r) ==
  /\ proc[r][Dev].st = "running"
  /\ r \notin served
  /\ run[r].inst # 0
  /\ served' = served \cup {r}
  /\ url' = IF listeners[run[r].inst] > 0 THEN run[r].inst ELSE url
  /\ UNCHANGED <<webContainerInstance, isInitialized, call, curDirectory, boots,
                 listeners, written, completed, autoVars>>
  /\ UNCHANGED <<run, nruns, mounted, shell, jsh, resizeListeners, removed>>
  /\ UNCHANGED sizeVars
  /\ UNCHANGED streamVars


\* lines 299-310 and 498-508, the body shared by terminalResize and the
\* 'resize' listener of run r, applied to the sizes sz = <<tsize, pty>>:
\* nothing without fitAddon and shell.current; else fitAddon.fit() gives
\* the run's Terminal the size fit, then shell.current.resize gets
\* terminal?.cols and terminal?.rows (undefined, written 0, once the cleanup
\* has set the closure's terminal to null)
ResizeBody(r, fit, sz) ==
  IF run[r].fitAddon /\ shell # 0
    THEN LET t == [sz[1] EXCEPT ![r] = fit]
             given == IF Falsy(run[r].terminal) THEN 0 ELSE t[r]
         IN  << t, IF jsh[shell].st = "running"
                     THEN [sz[2] EXCEPT ![shell] = given]
                     ELSE sz[2] >>
    ELSE sz

\* what fit() computes for the Terminal of run r when the div has size d: the
\* div's size, or for a Terminal whose div has left the document possibly
\* the size it has
FitResults(r, d) == IF mounted THEN {d} ELSE {d, tsize[r]}

\* the listeners of the window's 'resize' event run one after the other
RECURSIVE Dispatch(_, _, _)
Dispatch(rs, d, sz) ==
  IF rs = {} THEN {sz}
  ELSE LET r == CHOOSE x \in rs : \A y \in rs : x <= y
       IN  UNION { Dispatch(rs \ {r}, d, ResizeBody(r, fit, sz)) :
                     fit \in FitResults(r, d) }

\* the window is resized: the div takes size d and every registered
\* 'resize' listener runs (lines 496-509)
WindowResize(d) ==
  /\ container' = d
  /\ \E sz \in Dispatch(resizeListeners, d, <<tsize, pty>>) :
       /\ tsize' = sz[1]
       /\ pty' = sz[2]
  /\ UNCHANGED <<storeVars, autoVars, panelVars, streamVars>>

\* the parent resizes the panel to size d and calls terminalResize through
\* the ref (lines 298-311); the handle belongs to the latest effect run
terminalResize(d) ==
  /\ mounted
  /\ container' = d
  /\ LET sz == ResizeBody(nruns, d, <<tsize, pty>>) IN
       /\ tsize' = sz[1]
       /\ pty' = sz[2]
  /\ UNCHANGED <<storeVars, autoVars, panelVars, streamVars>>

ResizeNext ==
  \/ \E d \in Sizes : WindowResize(d)
  \/ \E d \in Sizes : terminalResize(d)


\* ------------------------------------------------------------- the streams

\* the container: the jsh of run r emits the chunk d on its output
JshOutput(r, d) ==
  /\ jsh[r].st = "running"
  /\ Len(emitted[r]) < MaxLen
  /\ emitted' = [emitted EXCEPT ![r] = Append(@, d)]
  /\ outq' = [outq EXCEPT ![r] = Append(@, d)]
  /\ UNCHANGED <<screen, typed, stdin, handlers, wiredAt>>
  /\ UNCHANGED <<storeVars, autoVars, panelVars, sizeVars>>

\* lines 541-544: write(data) of the sink is terminal?.write(data)
TerminalWrite(r, d) ==
  IF Falsy(run[r].terminal) THEN screen[r] ELSE Append(screen[r], d)

PipeWriteLast(r) ==
  /\ wiredAt[r] >= 0
  /\ outq[r] # <<>>
  /\ screen' = [screen EXCEPT ![r] = TerminalWrite(r, outq[r][Len(outq[r])])]
  /\ outq' = [outq EXCEPT ![r] = SubSeq(@, 1, Len(@) - 1)]
  /\ UNCHANGED <<emitted, typed, stdin, handlers, wiredAt>>
  /\ UNCHANGED <<storeVars, autoVars, panelVars, sizeVars>>

\* lines 533-546: the pipe takes the oldest chunk of the output and calls
\* write(data) of the sink with it
PipeWrite(r) ==
  /\ wiredAt[r] >= 0
  /\ outq[r] # <<>>
  /\ screen' = [screen EXCEPT ![r] = TerminalWrite(r, Head(outq[r]))]
  /\ outq' = [outq EXCEPT ![r] = Tail(@)]
  /\ UNCHANGED <<emitted, typed, stdin, handlers, wiredAt>>
  /\ UNCHANGED <<storeVars, autoVars, panelVars, sizeVars>>

\* lines 580-583: each registered handler calls input.write(data)
InputWrites(r, d) == [i \in 1..handlers[r] |-> d]

\* the user types d into the Terminal of run r, opened on the panel's div
\* (line 442): its onData event fires
OnData(r, d) ==
  /\ mounted
  /\ tsize[r] # 0
  /\ Len(typed[r]) < MaxLen
  /\ typed' = [typed EXCEPT ![r] = Append(@, d)]
  /\ stdin' = [stdin EXCEPT ![r] = @ \o InputWrites(r, d)]
  /\ UNCHANGED <<emitted, outq, screen, handlers, wiredAt>>
  /\ UNCHANGED <<storeVars, autoVars, panelVars, sizeVars>>

StreamNext ==
  \/ \E r \in Runs, d \in Data : JshOutput(r, d)
  \/ \E r \in Runs : PipeWrite(r)
  \/ \E r \in Runs, d \in Data : OnData(r, d)

\* the panel and its shell, without the steps of executeAutoCommands
PanelShell ==
  \/ Mount
  \/ EffectRerun
  \/ Unmount
  \/ \E r \in Runs : ImportNext(r)
  \/ \E r \in Runs : ImportsDone(r)
  \/ \E r \in Runs : JshResolve(r)
  \/ \E r \in Runs : JshReject(r)
  \/ \E r \in Runs : JshExit(r)

PanelNext ==
  \/ PanelShell
  \/ \E r \in Runs : AutoReturn(r)
  \/ \E r \in Runs : ServerReady(r)
  \/ \E r \in Runs : run[r].pc = "auto" /\ AutoStep(r)


\* the state after construction: a fresh store, no panel mounted
Init == StoreInit /\ AutoVarsInit /\ PanelVarsInit

\* executeAutoCommands on its own: one call, on some instance and terminal

AutoEnter ==
  /\ eac[1].pc = "idle"
  /\ executeAutoCommands(1)
  /\ UNCHANGED <<proc, storeVars, panelVars, sizeVars, streamVars>>

AutoNext ==
  \/ AutoEnter
  \/ AutoStep(1)

SpecAuto == Init /\ [][AutoNext]_vars

FairAuto ==
  /\ SpecAuto
  /\ WF_vars(AutoEnter)
  /\ WF_vars(ReaddirOk(1) \/ ReaddirFail(1))
  /\ WF_vars(WaitDone(1))
  /\ WF_vars(SpawnResolve(1) \/ SpawnReject(1))
  /\ WF_vars(ExitResolve(1))

\* ------------------------------------------------ executeAutoCommands: claims

InLog(r, m) == \E j \in 1..Len(log[r]) : log[r][j].m = m
LastLog(r) == log[r][Len(log[r])]

\* C3: 'pnpm dev' is spawned only after the 'pnpm install' process has exited
\* with code 0; the dev process never exists while install has not exited.
C3_Serial ==
  \A r \in Runs :
    /\ eac[r].k >= Dev => proc[r][Install] = [st |-> "exited", code |-> 0]
    /\ proc[r][Dev].st # "none" => proc[r][Install].st = "exited"
    /\ eac[r].spawns <= Len(commands)

C3_Witness ==
  /\ eac[1].k = Dev
  /\ proc[1][Dev].st = "running"
  /\ proc[1][Install] = [st |-> "exited", code |-> 0]

\* C4: once executeAutoCommands has seen a non-zero exit code of 'pnpm install'
\* it has written the failure message with that code as its last message, has
\* called spawn once only, there is no dev process and no completion message;
\* the completion message is written only after install exited 0 and dev was
\* spawned.
C4_FailureStops ==
  \A r \in Runs :
    /\ (proc[r][Install].st = "exited" /\ proc[r][Install].code # 0) =>
         /\ eac[r].pc \in {"exit", "done"}
         /\ eac[r].spawns = 1
         /\ proc[r][Dev].st = "none"
         /\ ~InLog(r, "complete")
         /\ eac[r].pc = "done" =>
              LastLog(r) = MsgCode("cmdfailed", proc[r][Install].code)
    /\ InLog(r, "complete") =>
         /\ proc[r][Install] = [st |-> "exited", code |-> 0]
         /\ proc[r][Dev].st # "none"

C4_Witness ==
  /\ eac[1].pc = "done"
  /\ proc[1][Install] = [st |-> "exited", code |-> 2]
  /\ LastLog(1) = MsgCode("cmdfailed", 2)

\* C5: spawn is called only after a readdir('/react') succeeded; when every
\* attempt failed the call has returned after writing the not-found error,
\* with no spawn call and no process.
C5_NoSpawnWithoutDir ==
  \A r \in Runs :
    /\ eac[r].spawns > 0 => eac[r].reactDirExists
    /\ (eac[r].fails = maxRetries /\ eac[r].pc \notin {"wait"}) =>
         /\ eac[r].pc = "done"
         /\ LastLog(r) = Msg("notfound")
         /\ eac[r].spawns = 0
         /\ \A k \in Cmds : proc[r][k].st = "none"
    /\ InLog(r, "notfound") => ~eac[r].reactDirExists /\ eac[r].fails = maxRetries

C5_Witness ==
  /\ eac[1].pc = "done"
  /\ eac[1].fails = maxRetries
  /\ LastLog(1) = Msg("notfound")

\* C6: readdir('/react') is attempted at most maxRetries times, every failed
\* attempt starts exactly one wait of retryInterval, nothing is attempted or
\* waited for after the first success, and the loop is always left.
C6_Safe ==
  \A r \in Runs :
    /\ eac[r].attempts <= maxRetries
    /\ eac[r].waits = eac[r].fails
    /\ eac[r].attempts <= eac[r].fails + 1
    /\ eac[r].pc = "wait" => eac[r].timer = retryInterval
    /\ eac[r].pc = "readdir" => eac[r].attempts = eac[r].i + 1
    /\ eac[r].reactDirExists =>
         /\ eac[r].attempts = eac[r].fails + 1
         /\ eac[r].pc \notin {"readdir", "wait"}

C6_BoundedPolling ==
  /\ []C6_Safe
  /\ (eac[1].pc = "readdir") ~> (eac[1].pc \notin {"idle", "readdir", "wait"})

C6_Witness ==
  /\ eac[1].attempts = maxRetries
  /\ eac[1].reactDirExists
  /\ eac[1].waits = maxRetries - 1

\* C7: the "started" message is written in the step in which spawn of
\* 'pnpm dev' returns, and once '/react' is found and 'pnpm install' has
\* exited, executeAutoCommands returns, whether or not 'pnpm dev' ever exits.
C7_DevNotAwaited ==
  /\ [](\A r \in Runs : proc[r][Dev].st # "none" => InLog(r, "started"))
  /\ (eac[1].reactDirExists /\ proc[1][Install].st = "exited") ~> (eac[1].pc = "done")

C7_Witness ==
  /\ eac[1].pc = "done"
  /\ proc[1][Dev].st = "running"
  /\ LastLog(1) = Msg("complete")

\* ------------------------------------------------------------ store: claims

\* C1: over any sequence of initWebContainer calls, overlapping ones included,
\* WebContainer.boot() is invoked at most once.
C1_BootAtMostOnce == boots <= 1

DoneOn(n) == {c \in Calls : call[c].pc = "done" /\ call[c].target = n}

\* C2 as stated: after any number of completed initWebContainer calls exactly
\* one 'server-ready' listener is registered on the instance the store holds.
C2_ExactlyOneListener ==
  (completed >= 1 /\ webContainerInstance # 0) => listeners[webContainerInstance] = 1

\* C2 as amended: every completed initWebContainer call has attached one
\* 'server-ready' listener to the instance it booted or found in the store, so
\* an instance carries as many listeners as calls completed on it, and the
\* instance the store holds carries at least one.
C2_OneListenerPerCall ==
  /\ \A n \in Instances : listeners[n] = Cardinality(DoneOn(n))
  /\ webContainerInstance # 0 => listeners[webContainerInstance] >= 1

C2_Witness ==
  /\ completed = 2
  /\ webContainerInstance # 0
  /\ listeners[webContainerInstance] = 2

\* ------------------------------------------------------------ panel: claims

\* C8: once the cleanup of an effect run has executed, no 'resize' listener
\* registered by that run is on the window.
C8_ResizeListenerRemoved ==
  \A r \in Runs : run[r].cleaned => r \notin resizeListeners

\* C9: once the cleanup of an effect run has executed, the jsh process spawned
\* by that run is not running, whenever the cleanup ran.
C9_ShellKilled ==
  \A r \in Runs : run[r].cleaned => jsh[r].st # "running"

\* C10: once the cleanup of an effect run has executed, none of the processes
\* spawned in that run (jsh, 'pnpm install', 'pnpm dev') is running.
C10_NoProcessLeft ==
  \A r \in Runs :
    run[r].cleaned =>
      /\ \A k \in Cmds : proc[r][k].st \in {"none", "killed", "exited"}
      /\ jsh[r].st \in {"none", "killed", "exited"}

\* the part of C10 about the processes of executeAutoCommands alone
CommandsStopped ==
  \A r \in Runs : run[r].cleaned => \A k \in Cmds : proc[r][k].st # "running"

\* C11: once a cleanup has executed, url is '' for as long as no effect run that
\* is still live has started a dev server: no 'server-ready' event of a process
\* of a cleaned-up run makes url non-empty.
C11_UrlStaysCleared ==
  ( /\ \E r \in Runs : run[r].cleaned
    /\ \A r \in Runs : ~run[r].cleaned => proc[r][Dev].st = "none" )
  => url = 0

\* C12: resize synchronisation: a running jsh process has been given, at
\* spawn and by every resize since, the cols and rows of the Terminal of its
\* effect run.
C12_ResizeSynchronised ==
  \A r \in Runs : jsh[r].st = "running" => pty[r] = tsize[r]

\* the onData events of the Terminal of run r since the streams were wired
EventsSinceWiring(r) == SubSeq(typed[r], wiredAt[r] + 1, Len(typed[r]))

\* C13: while the Terminal of a run is live the chunks written to it followed
\* by the chunks still in the pipe are the chunks its jsh emitted, each once
\* and in emission order; the data given to input.write are the onData events
\* since the wiring, each once and in event order; nothing is given to
\* input.write before spawn('jsh') has resolved.
C13_StreamsInOrder ==
  \A r \in Runs :
    /\ (wiredAt[r] >= 0 /\ ~Falsy(run[r].terminal))
         => screen[r] \o outq[r] = emitted[r]
    /\ handlers[r] > 0 => stdin[r] = EventsSinceWiring(r)
    /\ jsh[r].st = "none" => stdin[r] = <<>>

\* C13 (eventual delivery): the pipe never holds a chunk for ever.
C13_Streams == []C13_StreamsInOrder /\ []<>(\A r \in Runs : outq[r] = <<>>)

\* two different chunks are on the Terminal, and the user typed before and
\* after the wiring
C13_Witness ==
  \E r \in Runs :
    /\ ~Falsy(run[r].terminal)
    /\ Len(screen[r]) = 2 /\ screen[r][1] # screen[r][2]
    /\ wiredAt[r] > 0 /\ stdin[r] # <<>>

\* what a call that found the cached project (info) writes, in order
Expected(info) ==
  (IF info THEN <<"project">> ELSE <<>>) \o (IF curDirectory THEN <<"cur">> ELSE <<>>)

\* the call that booted instance n has returned: boot resolved, the project
\* and curDirectory were written in this order, the listener is attached
Seeded(n) ==
  /\ call[n].booted
  /\ call[n].pc = "done"
  /\ Len(written[n]) >= Len(Expected(call[n].info))
  /\ SubSeq(written[n], 1, Len(Expected(call[n].info))) = Expected(call[n].info)
  /\ listeners[n] >= 1

\* C14: the store holds an instance only when the booting call has booted
\* it, written the project files (if any) and then curDirectory (if any) and
\* attached the 'server-ready' listener; so every instance an effect run of
\* the panel uses, and spawns jsh on, is seeded.
C14_StoredAfterSeeding ==
  /\ webContainerInstance # 0 => Seeded(webContainerInstance)
  /\ \A r \in Runs : (r <= nruns /\ run[r].inst # 0) => Seeded(run[r].inst)

\* jsh runs on an instance that was seeded with both the project and
\* curDirectory
C14_Witness ==
  \E r \in Runs :
    /\ jsh[r].st = "running"
    /\ run[r].inst # 0
    /\ written[run[r].inst] = <<"project", "cur">>

\* some call was made while another was in flight
Overlapped == \E c \in Calls : call[c].overlap

\* C15 (state part): a call made while the store held an instance or had
\* isInitialized set never boots, and when made on an instance it returns
\* having written the project files (if any) and curDirectory (if any) into
\* that instance, which it then sets in the store.
C15_ReuseDoesNotBoot ==
  \A c \in Calls :
    (call[c].pc # "idle" /\ (call[c].init \/ call[c].inst # 0)) =>
      /\ ~call[c].booted
      /\ call[c].pc # "boot"
      /\ (call[c].pc = "done" /\ call[c].inst # 0) =>
           /\ call[c].target = call[c].inst
           /\ call[c].wrote = Expected(call[c].info)

\* C15: as above, and while the calls are sequential an instance the store
\* holds is never replaced by another value.
C15_InstanceKept ==
  /\ []C15_ReuseDoesNotBoot
  /\ [][(webContainerInstance # 0 /\ ~Overlapped')
          => webContainerInstance' = webContainerInstance]_vars

\* a second, sequential call returned on the instance the first one booted,
\* after writing the project and curDirectory into it again
C15_Witness ==
  \E c \in Calls :
    /\ ~Overlapped
    /\ call[c].pc = "done"
    /\ call[c].inst # 0
    /\ call[c].wrote = <<"project", "cur">>
    /\ webContainerInstance = call[c].inst
    /\ written[call[c].inst] = <<"project", "cur", "project", "cur">>

\* the store on its own
SpecStore == Init /\ [][StoreNext]_vars

\* the whole program: the panel, and the store booted by the page's one
\* initWebContainer call (on a fresh store it takes the branch of line 30)
Next == BootingCall(1) \/ PanelNext

Spec == Init /\ [][Next]_vars

\* the whole program with a window and a panel that change size
SpecResize == Init /\ [][Next \/ ResizeNext]_vars

\* the panel, its shell and the two streams; the steps of
\* executeAutoCommands touch neither and are left out
StreamsNext == BootingCall(1) \/ PanelShell \/ StreamNext

SpecStreams == Init /\ [][StreamsNext]_vars

\* pipeTo keeps pumping: a chunk in the pipe is eventually handed to write
FairStreams == SpecStreams /\ \A r \in Runs : WF_vars(PipeWrite(r))

====
